---- MODULE Spec2Model ----
(***************************************************************************)
(* A model of zi, a modal terminal text editor (src/main.go).              *)
(*                                                                         *)
(* The state is the terminal (its attributes and what was last flushed to  *)
(* it), the fields of TermState, the position of main() and the exit       *)
(* status of the process.  One action per step of main(): entering raw     *)
(* mode, the geometry query, opening the log file, openEditor, and the     *)
(* two halves of the endless loop, refreshScreen and processKeyPresses.    *)
(*                                                                         *)
(* Output is kept as text.  A formatted field of printf ("%*s", "%-*s",    *)
(* "%*d") is a piece with its padding counted, not spelled out, and the    *)
(* content lines of a frame are a function from the line index to the      *)
(* pieces of that line in which the lines that hold only the placeholder   *)
(* "~" are left out: a terminal that reports 0 rows is stored as 65535     *)
(* rows, and its frames have 65535 content lines.                          *)
(***************************************************************************)
EXTENDS Integers, Sequences, FiniteSets, TLC

VARIABLES
    pc,            \* where main() is: "start", "winsize", "openlog", "openEditor", "render", "read", "done"
    termios,       \* the attributes of the terminal (the kernel's copy)
    oldTermios,    \* TermState.oldTermios: the snapshot enableRawMode returned
    captured,      \* the attributes the terminal had when main() started
    rawEntered,    \* TRUE once enableRawMode has put the terminal in raw mode
    restores,      \* how many times disableRawMode was called
    restoredWith,  \* the attributes the last disableRawMode call passed to the ioctl
    reported,      \* the <<rows, columns>> TIOCGWINSZ reports for this terminal
    argv,          \* the command line and the file it names (see Args)
    winRow,        \* TermState.winSize.Row (uint16, decremented once)
    winCol,        \* TermState.winSize.Col (uint16, decremented once)
    mode,          \* TermState.mode
    welcomed,      \* TermState.welcomed
    cursorX,       \* TermState.cursorX
    cursorY,       \* TermState.cursorY
    bufferRows,    \* TermState.bufferRows
    rowOffset,     \* TermState.rowOffset
    lineNumWidth,  \* TermState.lineNumWidth
    openFilename,  \* TermState.openFilename
    fileOpened,    \* TRUE when openEditor loaded a file
    out,           \* what the last Flush of TermState.w sent to the terminal
    frames,        \* how many frames refreshScreen has flushed
    bannerFrames,  \* in how many of them the welcome banner was written
    lastKey,       \* the byte readKeyPress returned last
    lastMode,      \* the mode that byte was dispatched in
    retries,       \* how many reads failed in the current (or last) call of readKeyPress
    sys,           \* what the last step did to the outside world, in order
    cause,         \* why the process terminated
    exitCode       \* the exit status of the process

vars == <<pc, termios, oldTermios, captured, rawEntered, restores, restoredWith,
          reported, argv, winRow, winCol, mode, welcomed, cursorX, cursorY, bufferRows,
          rowOffset, lineNumWidth, openFilename, fileOpened, out, frames,
          bannerFrames, lastKey, lastMode, retries, sys, cause, exitCode>>

termVars == <<termios, oldTermios, captured, rawEntered, restores, restoredWith>>
geomVars == <<winRow, winCol>>
envVars  == <<reported, argv>>
tsVars   == <<mode, welcomed, cursorX, cursorY, bufferRows, rowOffset,
              lineNumWidth, openFilename, fileOpened>>
outVars  == <<out, frames, bannerFrames>>
keyVars  == <<lastKey, lastMode, retries>>

----------------------------------------------------------------------------
(* Bounds of the model. *)

MaxRows == 3          \* TIOCGWINSZ reports 0..MaxRows rows
MaxCols == 3          \* ... and 0..MaxCols columns,
WideCols == 12        \* or WideCols columns (room for the whole status text)
MaxFileRows == 2      \* the opened file has 0..MaxFileRows lines,
BigFileRows == 10     \* or BigFileRows lines (a gutter of two digits)
MaxRetries == 1       \* failed reads counted per call of readKeyPress
MaxCursorX == 6       \* 'l' is not pressed beyond this column (a 65535-column terminal)

Min(a, b) == IF a < b THEN a ELSE b
Max(a, b) == IF a > b THEN a ELSE b

----------------------------------------------------------------------------
(* Constants of the program. *)

ziVersion == "0.0.1"
ESC == "\\x1b"
escapeChar == 27
reset == 0
faint == 2
inverted == 7
bgBlue == 44
normalMode == 1
insertMode == 2
commandMode == 3
(* main.go declares no Visual mode; an editorMode can hold any int, and this
   is one no constant names. *)
visualMode == 4
Uint16 == 65536
NoKey == 0 - 1
NoExit == 0 - 1

(* The bytes the keyboard sends. *)
KeyH == 104
KeyI == 105
KeyJ == 106
KeyK == 107
KeyL == 108
KeyQ == 113
KeyX == 120
CtrlQ == 17
Keys == {CtrlQ, escapeChar, KeyH, KeyI, KeyJ, KeyK, KeyL, KeyX}

----------------------------------------------------------------------------
(* The terminal attributes (unix.Termios): the flags that are set in each of
   the four flag words, and the two control characters the program writes. *)

Cooked ==
    [iflag |-> {"BRKINT", "ICRNL", "IXON"},
     oflag |-> {"OPOST", "ONLCR"},
     lflag |-> {"ECHO", "ICANON", "ISIG", "IEXTEN"},
     cflag |-> {"CS8", "CREAD"},
     vmin  |-> 1,
     vtime |-> 0]

(* A 7-bit terminal with parity, as a serial line may be set up. *)
SevenBit ==
    [iflag |-> {"ICRNL", "ISTRIP", "IXON"},
     oflag |-> {"OPOST"},
     lflag |-> {"ECHO", "ECHONL", "ICANON", "ISIG"},
     cflag |-> {"CS7", "PARENB", "CREAD"},
     vmin  |-> 1,
     vtime |-> 0]

StartTermios == {Cooked, SevenBit}

(* unix.CSIZE is the mask of the character-size bits CS5..CS8. *)
CSIZE == {"CS5", "CS6", "CS7", "CS8"}

(* The attributes enableRawMode writes, computed from those it read. *)
RawOf(t) ==
    [iflag |-> t.iflag \ {"IGNBRK", "BRKINT", "PARMRK", "ISTRIP",
                          "INLCR", "IGNCR", "ICRNL", "IXON"},
     oflag |-> t.oflag \ {"OPOST"},
     lflag |-> t.lflag \ {"ECHO", "ECHONL", "ICANON", "ISIG", "IEXTEN"},
     cflag |-> ((t.cflag \ CSIZE) \ {"PARENB"}) \cup {"CS8"},
     vmin  |-> 0,
     vtime |-> 1]

NilTermios ==
    [iflag |-> {}, oflag |-> {}, lflag |-> {}, cflag |-> {}, vmin |-> 0, vtime |-> 0]

(* enableRawMode: reads the attributes (getOk: the ioctl succeeds), keeps a
   copy of them, clears and sets flags in what it read and writes that
   (setOk: the ioctl succeeds).  `old` is the snapshot main() gets back,
   `now` the attributes the terminal is left with. *)
enableRawMode_alias(t, getOk, setOk) ==
    IF ~getOk THEN [err |-> TRUE, old |-> NilTermios, now |-> t]
    ELSE IF ~setOk THEN [err |-> TRUE, old |-> NilTermios, now |-> t]
    ELSE [err |-> FALSE, old |-> RawOf(t), now |-> RawOf(t)]
enableRawMode(t, getOk, setOk) ==
    IF ~getOk THEN [err |-> TRUE, old |-> NilTermios, now |-> t]
    ELSE IF ~setOk THEN [err |-> TRUE, old |-> NilTermios, now |-> t]
    ELSE [err |-> FALSE, old |-> t, now |-> RawOf(t)]

(* disableRawMode: one ioctl that writes `old`; its error is dropped.  `ok`
   is whether the ioctl succeeded.  The result is the terminal's attributes. *)
disableRawMode_toggle(now, old, ok) ==
    IF ~ok THEN now ELSE IF now = old THEN RawOf(old) ELSE old
disableRawMode(now, old, ok) == IF ok THEN old ELSE now

(* ctrlPress: the byte with bits 5-7 cleared (char & 0x1f). *)
ctrlPress_plain(char) == char
ctrlPress(char) == char % 32

----------------------------------------------------------------------------
(* Output.  A piece is one run of bytes: an escape sequence ("esc") or text
   ("txt") with `left` spaces before it and `right` spaces after it. *)

Piece(k, s, l, r) == [k |-> k, s |-> s, left |-> l, right |-> r]
Esc(s) == Piece("esc", s, 0, 0)
Txt(s) == Piece("txt", s, 0, 0)
(* fmt's "%*s" / "%*d": right-aligned in `width` cells, never cut. *)
PadLeft(width, s) == Piece("txt", s, Max(0, width - Len(s)), 0)
(* fmt's "%-*s": left-aligned in `width` cells, never cut. *)
PadRight(width, s) == Piece("txt", s, 0, Max(0, width - Len(s)))
(* The number of cells a piece takes on the screen. *)
Cells(p) == IF p.k = "esc" THEN 0 ELSE p.left + Len(p.s) + p.right

CRLF == Txt("\r\n")
Tilde == Txt("~")

HideCursor == Esc(ESC \o "[?25l")
ShowCursor == Esc(ESC \o "[?25h")
CursorHome == Esc(ESC \o "[H")
EraseDisplay == Esc(ESC \o "[2J")
CursorTo(y, x) == Esc(ESC \o "[" \o ToString(y) \o ";" \o ToString(x) \o "H")

(* colorCode: the escape sequence that starts colour c. *)
colorCode(c) == Esc(ESC \o "[" \o ToString(c) \o "m")

(* clearScreen: cursor to the top left, then erase the whole display. *)
clearScreen == <<CursorHome, EraseDisplay>>

(* What one Flush sends: the pieces written before the content lines, the
   number of content lines begun, the lines that are not just "~" CRLF, and
   the pieces written after the content lines. *)
Burst(head, rows, lines, tail) ==
    [head |-> head, rows |-> rows, lines |-> lines, tail |-> tail]
NoLines == [i \in {} |-> <<>>]
NoOutput == Burst(<<>>, 0, NoLines, <<>>)
PlaceholderLine == <<Tilde, CRLF>>
(* Content line i of a burst. *)
LineOf(b, i) == IF i \in DOMAIN b.lines THEN b.lines[i] ELSE PlaceholderLine

----------------------------------------------------------------------------
(* The editor.  ts is a TermState: a record of the fields the operations
   read and write (winSize as row and col). *)

(* moveCursor: h, j, k, l, each guarded by its edge. *)
moveCursor_scroll(ts, b) ==
    CASE b = KeyH ->
           IF ts.cursorX > ts.lineNumWidth + 1
           THEN [ts EXCEPT !.cursorX = @ - 1] ELSE ts
      [] b = KeyJ ->
           IF ts.cursorY < Len(ts.bufferRows)
           THEN [ts EXCEPT !.cursorY = @ + 1] ELSE ts
      [] b = KeyK ->
           IF ts.cursorY > 0
           THEN [ts EXCEPT !.cursorY = @ - 1, !.rowOffset = Max(0, @ - 1)] ELSE ts
      [] b = KeyL ->
           IF ts.cursorX < ts.col
           THEN [ts EXCEPT !.cursorX = @ + 1] ELSE ts
      [] OTHER -> ts
moveCursor(ts, b) ==
    CASE b = KeyH ->
           IF ts.cursorX > ts.lineNumWidth + 1
           THEN [ts EXCEPT !.cursorX = @ - 1] ELSE ts
      [] b = KeyJ ->
           IF ts.cursorY < Len(ts.bufferRows)
           THEN [ts EXCEPT !.cursorY = @ + 1] ELSE ts
      [] b = KeyK ->
           IF ts.cursorY > 0
           THEN [ts EXCEPT !.cursorY = @ - 1] ELSE ts
      [] b = KeyL ->
           IF ts.cursorX < ts.col
           THEN [ts EXCEPT !.cursorX = @ + 1] ELSE ts
      [] OTHER -> ts

(* TermState.exit: restore the terminal, then print the error and exit 1,
   or exit 0.  fx is what it does, in order. *)
exit(err) ==
    IF err THEN [fx |-> <<"restore", "print error", "exit">>, code |-> 1]
    ELSE [fx |-> <<"restore", "exit">>, code |-> 0]

(* What a keypress handler returns: the TermState, the pieces it wrote to
   ts.w, what it did to the outside world in order, and the exit status if
   it ended the process. *)
Handled(ts) == [ts |-> ts, w |-> <<>>, fx |-> <<>>, code |-> NoExit]

(* processNormalModePress: Ctrl-Q clears the screen, flushes and exits. *)
processNormalModePress_noflush(ts, b) ==
    CASE b = ctrlPress(KeyQ) ->
           [ts |-> ts, w |-> clearScreen,
            fx |-> <<"write">> \o exit(FALSE).fx, code |-> exit(FALSE).code]
      [] b = KeyI -> Handled([ts EXCEPT !.mode = insertMode])
      [] b \in {KeyH, KeyJ, KeyK, KeyL} -> Handled(moveCursor(ts, b))
      [] OTHER -> Handled(ts)
processNormalModePress_command(ts, b) ==
    CASE b = ctrlPress(KeyQ) ->
           [ts |-> ts, w |-> clearScreen,
            fx |-> <<"write", "flush">> \o exit(FALSE).fx, code |-> exit(FALSE).code]
      [] b = KeyI -> Handled([ts EXCEPT !.mode = insertMode])
      [] b = KeyX -> Handled([ts EXCEPT !.mode = commandMode])
      [] b \in {KeyH, KeyJ, KeyK, KeyL} -> Handled(moveCursor(ts, b))
      [] OTHER -> Handled(ts)
processNormalModePress(ts, b) ==
    CASE b = ctrlPress(KeyQ) ->
           [ts |-> ts, w |-> clearScreen,
            fx |-> <<"write", "flush">> \o exit(FALSE).fx, code |-> exit(FALSE).code]
      [] b = KeyI -> Handled([ts EXCEPT !.mode = insertMode])
      [] b \in {KeyH, KeyJ, KeyK, KeyL} -> Handled(moveCursor(ts, b))
      [] OTHER -> Handled(ts)

processInsertModePress_stay(ts, b) == Handled(ts)
processInsertModePress_move(ts, b) ==
    IF b = escapeChar THEN Handled([ts EXCEPT !.mode = normalMode])
    ELSE Handled(moveCursor(ts, b))
processInsertModePress(ts, b) ==
    IF b = escapeChar THEN Handled([ts EXCEPT !.mode = normalMode]) ELSE Handled(ts)

processCommandModePress(ts, b) ==
    IF b = escapeChar THEN Handled([ts EXCEPT !.mode = normalMode]) ELSE Handled(ts)

(* r.ReadByte on the terminal in raw mode (VMIN 0, VTIME 1): a byte, or an
   error and the zero byte when nothing came within the timeout. *)
ReadByte ==
    {[b |-> k, err |-> FALSE] : k \in Keys} \cup {[b |-> 0, err |-> TRUE]}

(* readKeyPress, one turn of its loop over the result rd of ReadByte: the
   byte is returned, or nothing is (NoKey) and the loop reads again. *)
readKeyPress_anyway(rd) == rd.b
readKeyPress(rd) == IF rd.err THEN NoKey ELSE rd.b

(* processKeyPresses, after readKeyPress returned b: the switch on the mode. *)
processKeyPresses(ts, b) ==
    CASE ts.mode = normalMode -> processNormalModePress(ts, b)
      [] ts.mode = insertMode -> processInsertModePress(ts, b)
      [] ts.mode = commandMode -> processCommandModePress(ts, b)
      [] OTHER -> Handled(ts)

(* adjustScroll: two ifs, one after the other. *)
adjustScroll_clamp(ts) ==
    IF ts.cursorY >= ts.rowOffset + ts.row
    THEN [ts EXCEPT !.cursorY = Max(0, ts.rowOffset + ts.row - 1)] ELSE ts
adjustScroll(ts) ==
    LET up == IF ts.cursorY < ts.rowOffset
              THEN [ts EXCEPT !.rowOffset = ts.cursorY] ELSE ts
    IN  IF up.cursorY >= up.rowOffset + up.row
        THEN [up EXCEPT !.rowOffset = up.cursorY - up.row] ELSE up

(* writeWelcomeMsg: sets welcomed and writes the banner, cut to col+1
   characters or centred.  The slice bound ts.winSize.Col+1 is a uint16. *)
writeWelcomeMsg_forget(ts) ==
    LET msg == "zi -- version " \o ziVersion
        cut == SubSeq(msg, 1, (ts.col + 1) % Uint16)
    IN  [ts |-> ts,
         w  |-> IF Len(msg) > ts.col + 1
                THEN <<PadLeft(Len(cut), cut)>>
                ELSE <<PadLeft((ts.col + 1 + Len(msg)) \div 2, msg)>>]
writeWelcomeMsg(ts) ==
    LET msg == "zi -- version " \o ziVersion
        cut == SubSeq(msg, 1, (ts.col + 1) % Uint16)
    IN  [ts |-> [ts EXCEPT !.welcomed = TRUE],
         w  |-> IF Len(msg) > ts.col + 1
                THEN <<PadLeft(Len(cut), cut)>>
                ELSE <<PadLeft((ts.col + 1 + Len(msg)) \div 2, msg)>>]

(* writeStatusBar: the colour and the name of the mode (neither is set for
   a mode other than Normal and Insert), then the text, left-aligned in col
   cells, between the colour and the reset. *)
writeStatusBar(ts) ==
    LET c == CASE ts.mode = normalMode -> inverted
               [] ts.mode = insertMode -> bgBlue
               [] OTHER -> 0
        name == CASE ts.mode = normalMode -> "NORMAL"
                  [] ts.mode = insertMode -> "INSERT"
                  [] OTHER -> ""
        msg == name \o " -- " \o ts.openFilename
    IN  <<colorCode(c), PadRight(ts.col, msg), colorCode(reset)>>

(* drawRows: clears the screen, recomputes the gutter width, then writes
   ts.row content lines and the status bar.  Content line i shows buffer row
   rowOffset+i when there is one (the lines `covered`), the placeholder "~"
   otherwise, and the banner after the "~" of line row/3 while welcomed is
   false.  Indexing bufferRows below 0 and slicing a row to a negative
   length panic, after the gutter of that line was written: `panicked`, and
   the line is left unfinished.  w is what was written. *)
drawRows(ts) ==
    LET n == Len(ts.bufferRows)
        lnw == Len(ToString(n))
        allowColChars == ts.col - lnw
        fileRow(i) == ts.rowOffset + i
        covered == 0 .. (Min(ts.row, n - ts.rowOffset) - 1)
        chars(i) == LET len == Len(ts.bufferRows[fileRow(i) + 1])
                    IN  IF len > allowColChars THEN allowColChars ELSE len
        bad == {i \in covered : fileRow(i) < 0 \/ chars(i) < 0}
        panicked == bad # {}
        panicAt == CHOOSE i \in bad : \A j \in bad : i <= j
        done == IF panicked THEN panicAt ELSE ts.row
        mid == ts.row \div 3
        banner == ~ts.welcomed /\ mid < done /\ mid \notin covered
        welcome == writeWelcomeMsg(ts)
        gutter(i) == <<colorCode(faint), PadLeft(lnw, ToString(fileRow(i) + 1)),
                       colorCode(reset), Txt(" ")>>
        text(i) == Txt(SubSeq(ts.bufferRows[fileRow(i) + 1], 1, chars(i)))
        shown == {i \in covered : i < done}
                    \cup (IF panicked THEN {panicAt} ELSE {})
                    \cup (IF banner THEN {mid} ELSE {})
        lines == [i \in shown |->
                    IF i \in covered
                    THEN IF panicked /\ i = panicAt THEN gutter(i)
                         ELSE gutter(i) \o <<text(i), CRLF>>
                    ELSE <<Tilde>> \o welcome.w \o <<CRLF>>]
        after == [(IF banner THEN welcome.ts ELSE ts) EXCEPT !.lineNumWidth = lnw]
    IN  [ts |-> after,
         w |-> Burst(clearScreen,
                     IF panicked THEN panicAt + 1 ELSE ts.row,
                     lines,
                     IF panicked THEN <<>> ELSE writeStatusBar(after)),
         panicked |-> panicked,
         banner |-> banner]

(* refreshScreen: adjustScroll, hide the cursor, drawRows, place the cursor;
   the two deferred calls show the cursor and flush, also when drawRows
   panicked.  out is what the flush sends. *)
refreshScreen_nodefer(ts) ==
    LET d == drawRows(adjustScroll(ts))
        yPos == (d.ts.cursorY - d.ts.rowOffset) + (IF d.ts.cursorY < 2 THEN 1 ELSE 0)
        place == IF d.panicked THEN <<>> ELSE <<CursorTo(yPos, d.ts.cursorX + 1), ShowCursor>>
    IN  [ts |-> d.ts,
         out |-> Burst(<<HideCursor>> \o d.w.head, d.w.rows, d.w.lines,
                       d.w.tail \o place),
         yPos |-> yPos,
         panicked |-> d.panicked,
         banner |-> d.banner]
refreshScreen(ts) ==
    LET d == drawRows(adjustScroll(ts))
        yPos == (d.ts.cursorY - d.ts.rowOffset) + (IF d.ts.cursorY < 2 THEN 1 ELSE 0)
        place == IF d.panicked THEN <<>> ELSE <<CursorTo(yPos, d.ts.cursorX + 1)>>
    IN  [ts |-> d.ts,
         out |-> Burst(<<HideCursor>> \o d.w.head, d.w.rows, d.w.lines,
                       d.w.tail \o place \o <<ShowCursor>>),
         yPos |-> yPos,
         panicked |-> d.panicked,
         banner |-> d.banner]

(* The command line and the file it names: no argument, a file that cannot be
   opened, or a file of n lines.  Line i of a file has (3 i) mod 7 letters. *)
Letters == "abcdefg"
FileOf(n) == [i \in 1..n |-> SubSeq(Letters, 1, (3 * i) % 7)]
FileSizes == (0..MaxFileRows) \cup {BigFileRows}
Args ==
    {[given |-> FALSE, ok |-> FALSE, name |-> "", rows |-> <<>>],
     [given |-> TRUE, ok |-> FALSE, name |-> "nofile", rows |-> <<>>]}
    \cup {[given |-> TRUE, ok |-> TRUE, name |-> "f" \o ToString(n), rows |-> FileOf(n)]
            : n \in FileSizes}

(* openEditor: without an argument nothing changes; with one, the name is
   kept, and if the file opens its lines are appended, the banner is
   switched off and the cursor is put right of the gutter. *)
openEditor_nowelcome(ts, arg) ==
    IF ~arg.given THEN [ts |-> ts, err |-> FALSE]
    ELSE LET named == [ts EXCEPT !.openFilename = arg.name]
             rows == named.bufferRows \o arg.rows
             lnw == Len(ToString(Len(rows)))
         IN  IF ~arg.ok THEN [ts |-> named, err |-> TRUE]
             ELSE [ts |-> [named EXCEPT !.bufferRows = rows,
                                        !.lineNumWidth = lnw,
                                        !.cursorX = lnw + 1],
                   err |-> FALSE]
openEditor(ts, arg) ==
    IF ~arg.given THEN [ts |-> ts, err |-> FALSE]
    ELSE LET named == [ts EXCEPT !.openFilename = arg.name]
             rows == named.bufferRows \o arg.rows
             lnw == Len(ToString(Len(rows)))
         IN  IF ~arg.ok THEN [ts |-> named, err |-> TRUE]
             ELSE [ts |-> [named EXCEPT !.bufferRows = rows,
                                        !.welcomed = TRUE,
                                        !.lineNumWidth = lnw,
                                        !.cursorX = lnw + 1],
                   err |-> FALSE]

(* A panic that nothing recovers ends the process with status 2. *)
PanicExit == 2


----------------------------------------------------------------------------
(* The state machine. *)

TS ==
    [row |-> winRow, col |-> winCol, mode |-> mode, welcomed |-> welcomed,
     cursorX |-> cursorX, cursorY |-> cursorY, bufferRows |-> bufferRows,
     rowOffset |-> rowOffset, lineNumWidth |-> lineNumWidth,
     openFilename |-> openFilename]

SetTS(ts) ==
    /\ mode' = ts.mode
    /\ welcomed' = ts.welcomed
    /\ cursorX' = ts.cursorX
    /\ cursorY' = ts.cursorY
    /\ bufferRows' = ts.bufferRows
    /\ rowOffset' = ts.rowOffset
    /\ lineNumWidth' = ts.lineNumWidth
    /\ openFilename' = ts.openFilename

Count(fx, e) == Cardinality({i \in DOMAIN fx : fx[i] = e})

(* The process ends after doing fx; each "restore" in fx is a call of
   disableRawMode with the snapshot, whose ioctl succeeds or not (rok). *)
Terminate(fx, code, why, rok) ==
    /\ pc' = "done"
    /\ sys' = fx
    /\ exitCode' = code
    /\ cause' = why
    /\ restores' = restores + Count(fx, "restore")
    /\ IF Count(fx, "restore") > 0
       THEN /\ termios' = disableRawMode(termios, oldTermios, rok)
            /\ restoredWith' = oldTermios
       ELSE UNCHANGED <<termios, restoredWith>>
    /\ UNCHANGED <<oldTermios, captured, rawEntered>>

ReportedCols == (0..MaxCols) \cup {WideCols}

(* Before main() runs: a terminal with its attributes and its size, and a
   command line. *)
Init ==
    /\ pc = "start"
    /\ termios \in StartTermios
    /\ captured = termios
    /\ oldTermios = NilTermios
    /\ rawEntered = FALSE
    /\ restores = 0
    /\ restoredWith = NilTermios
    /\ reported \in (0..MaxRows) \X ReportedCols
    /\ argv \in Args
    /\ winRow = 0
    /\ winCol = 0
    /\ mode = 0
    /\ welcomed = FALSE
    /\ cursorX = 0
    /\ cursorY = 0
    /\ bufferRows = <<>>
    /\ rowOffset = 0
    /\ lineNumWidth = 0
    /\ openFilename = ""
    /\ fileOpened = FALSE
    /\ out = NoOutput
    /\ frames = 0
    /\ bannerFrames = 0
    /\ lastKey = NoKey
    /\ lastMode = 0
    /\ retries = 0
    /\ sys = <<>>
    /\ cause = ""
    /\ exitCode = NoExit

(* main, line 363: enableRawMode; an error panics. *)
EnterRawMode ==
    /\ pc = "start"
    /\ \E getOk \in BOOLEAN, setOk \in BOOLEAN :
         LET r == enableRawMode(termios, getOk, setOk)
         IN  IF r.err
             THEN Terminate(<<"panic">>, PanicExit, "rawmode", TRUE)
             ELSE /\ termios' = r.now
                  /\ oldTermios' = r.old
                  /\ rawEntered' = TRUE
                  /\ pc' = "winsize"
                  /\ UNCHANGED <<captured, restores, restoredWith, sys, cause, exitCode>>
    /\ UNCHANGED <<envVars, geomVars, tsVars, outVars, keyVars>>

(* main, lines 368-376: the geometry query; an error or 0x0 restores the
   terminal and panics; otherwise both uint16 fields are decremented. *)
GetWinsize ==
    /\ pc = "winsize"
    /\ \E ok \in BOOLEAN :
         IF ~ok \/ (reported[1] = 0 /\ reported[2] = 0)
         THEN /\ \E rok \in BOOLEAN :
                   Terminate(<<"restore", "panic">>, PanicExit, "winsize", rok)
              /\ UNCHANGED geomVars
         ELSE /\ winRow' = (reported[1] - 1) % Uint16
              /\ winCol' = (reported[2] - 1) % Uint16
              /\ pc' = "openlog"
              /\ UNCHANGED <<termVars, sys, cause, exitCode>>
    /\ UNCHANGED <<envVars, tsVars, outVars, keyVars>>

(* main, lines 380-406: the log file; an error restores the terminal and
   panics; otherwise the TermState is made and the recover is deferred. *)
OpenLog ==
    /\ pc = "openlog"
    /\ \/ \E rok \in BOOLEAN :
            /\ Terminate(<<"restore", "panic">>, PanicExit, "logfile", rok)
            /\ UNCHANGED tsVars
       \/ /\ mode' = normalMode
          /\ bufferRows' = <<>>
          /\ cursorX' = 2
          /\ pc' = "openEditor"
          /\ UNCHANGED <<welcomed, cursorY, rowOffset, lineNumWidth, openFilename,
                         fileOpened, termVars, sys, cause, exitCode>>
    /\ UNCHANGED <<envVars, geomVars, outVars, keyVars>>

(* main, lines 408-411: openEditor; an error goes to ts.exit(err). *)
OpenEditor ==
    /\ pc = "openEditor"
    /\ LET r == openEditor(TS, argv)
       IN  /\ SetTS(r.ts)
           /\ fileOpened' = (argv.given /\ argv.ok)
           /\ IF r.err
              THEN \E rok \in BOOLEAN :
                     Terminate(exit(TRUE).fx, exit(TRUE).code, "fileopen", rok)
              ELSE /\ pc' = "render"
                   /\ UNCHANGED <<termVars, sys, cause, exitCode>>
    /\ UNCHANGED <<envVars, geomVars, outVars, keyVars>>

MaxFrames == 2        \* frames counts 0, 1, and "MaxFrames or more"

(* main, line 414: refreshScreen.  A panic in it is recovered by the
   function main deferred: it prints the stack and calls ts.exit(err). *)
Render ==
    /\ pc = "render"
    /\ LET r == refreshScreen(TS)
       IN  /\ SetTS(r.ts)
           /\ out' = r.out
           /\ frames' = Min(frames + 1, MaxFrames)
           /\ bannerFrames' = bannerFrames + (IF r.banner THEN 1 ELSE 0)
           /\ IF r.panicked
              THEN \E rok \in BOOLEAN :
                     Terminate(<<"flush", "print stack">> \o exit(TRUE).fx,
                               exit(TRUE).code, "panic", rok)
              ELSE /\ pc' = "read"
                   /\ sys' = <<"flush">>
                   /\ UNCHANGED <<termVars, cause, exitCode>>
    /\ retries' = 0
    /\ UNCHANGED <<envVars, geomVars, fileOpened, lastKey, lastMode>>

(* readKeyPress, line 116-119: ReadByte gave an error, nothing is returned
   and the loop goes round. *)
ReadRetry ==
    /\ pc = "read"
    /\ retries < MaxRetries
    /\ \E rd \in ReadByte :
         /\ readKeyPress(rd) = NoKey
         /\ retries' = retries + 1
    /\ UNCHANGED <<pc, termVars, envVars, geomVars, tsVars, outVars, lastKey,
                   lastMode, sys, cause, exitCode>>

(* main, line 415: processKeyPresses, with the byte readKeyPress returns. *)
KeyPress ==
    /\ pc = "read"
    /\ \E rd \in ReadByte :
         /\ readKeyPress(rd) # NoKey
         /\ ~(readKeyPress(rd) = KeyL /\ mode = normalMode /\ cursorX >= MaxCursorX)
         /\ LET b == readKeyPress(rd)
                r == processKeyPresses(TS, b)
            IN  /\ SetTS(r.ts)
                /\ lastKey' = b
                /\ lastMode' = mode
                /\ retries' = retries
                /\ IF r.code # NoExit
                   THEN /\ out' = IF Count(r.fx, "flush") > 0
                                   THEN Burst(r.w, 0, NoLines, <<>>) ELSE out
                        /\ \E rok \in BOOLEAN : Terminate(r.fx, r.code, "quit", rok)
                   ELSE /\ pc' = "render"
                        /\ sys' = r.fx
                        /\ UNCHANGED <<out, termVars, cause, exitCode>>
    /\ UNCHANGED <<envVars, geomVars, fileOpened, frames, bannerFrames>>

Next ==
    \/ EnterRawMode
    \/ GetWinsize
    \/ OpenLog
    \/ OpenEditor
    \/ Render
    \/ ReadRetry
    \/ KeyPress

Spec == Init /\ [][Next]_vars

(* The same program on a terminal of two rows or more. *)
InitTall == Init /\ reported[1] >= 2
SpecTall == InitTall /\ [][Next]_vars

(* The same program on the tallest and widest terminal of the model. *)
InitRoomy == Init /\ reported = <<MaxRows, WideCols>>
SpecRoomy == InitRoomy /\ [][Next]_vars

(* The same program on a terminal of two rows or more and one to MaxCols
   columns. *)
InitNarrow == Init /\ reported[1] >= 2 /\ reported[2] \in 1..MaxCols
SpecNarrow == InitNarrow /\ [][Next]_vars

(* The same program on a terminal that reports no rows but some columns. *)
InitNoRows == Init /\ reported[1] = 0 /\ reported[2] >= 2
SpecNoRows == InitNoRows /\ [][Next]_vars

(* processKeyPresses as a function of the mode: the state main() has when it
   calls openEditor, with the mode set to each value of editorMode in turn,
   one of them the value no constant names. *)
Modes == {normalMode, insertMode, commandMode, visualMode}
InitDispatch ==
    /\ pc = "openEditor"
    /\ captured \in StartTermios
    /\ oldTermios = captured
    /\ termios = RawOf(captured)
    /\ rawEntered = TRUE
    /\ restores = 0
    /\ restoredWith = NilTermios
    /\ reported = <<MaxRows, WideCols>>
    /\ argv \in Args
    /\ winRow = MaxRows - 1
    /\ winCol = WideCols - 1
    /\ mode \in Modes
    /\ welcomed = FALSE
    /\ cursorX = 2
    /\ cursorY = 0
    /\ bufferRows = <<>>
    /\ rowOffset = 0
    /\ lineNumWidth = 0
    /\ openFilename = ""
    /\ fileOpened = FALSE
    /\ out = NoOutput
    /\ frames = 0
    /\ bannerFrames = 0
    /\ lastKey = NoKey
    /\ lastMode = 0
    /\ retries = 0
    /\ sys = <<>>
    /\ cause = ""
    /\ exitCode = NoExit
NextDispatch ==
    \/ OpenEditor
    \/ Render
    \/ ReadRetry
    \/ KeyPress
SpecDispatch == InitDispatch /\ [][NextDispatch]_vars

----------------------------------------------------------------------------
(* Properties. *)

InLoop == pc \in {"render", "read"}
(* A frame was flushed and no key was dispatched since. *)
Drawn == pc = "read"
gutterWidth == Len(ToString(Len(bufferRows)))
IsCursorTo(p) ==
    /\ p.k = "esc"
    /\ Len(p.s) > Len(CursorHome.s)
    /\ SubSeq(p.s, Len(p.s), Len(p.s)) = "H"
(* How many cursor-position escapes a burst holds. *)
CursorTos(b) ==
    Cardinality({i \in DOMAIN b.head : IsCursorTo(b.head[i])})
    + Cardinality({ij \in UNION {{<<i, j>> : j \in DOMAIN b.lines[i]} : i \in DOMAIN b.lines} :
                     IsCursorTo(b.lines[ij[1]][ij[2]])})
    + Cardinality({i \in DOMAIN b.tail : IsCursorTo(b.tail[i])})
(* The content lines of a burst that hold the banner. *)
BannerLines(b) ==
    {i \in DOMAIN b.lines : Len(b.lines[i]) = 3 /\ b.lines[i][1] = Tilde}
WithoutBanner(b) ==
    [b EXCEPT !.lines = [i \in (DOMAIN b.lines) \ BannerLines(b) |-> b.lines[i]]]
ClearBurst == Burst(<<CursorHome, EraseDisplay>>, 0, NoLines, <<>>)

(* C1: on every path that ends the process after raw mode was entered (quit,
   file-open error, geometry failure, log-file failure, recovered panic) the
   snapshot taken at startup is written back exactly once, before the process
   ends, and the snapshot is never changed after it was taken. *)
C1_SnapshotRestoredOnce ==
    /\ rawEntered => oldTermios = captured
    /\ (rawEntered /\ pc # "done") => restores = 0
    /\ (rawEntered /\ pc = "done") =>
         /\ cause \in {"quit", "fileopen", "winsize", "logfile", "panic"}
         /\ restores = 1
         /\ restoredWith = captured
         /\ Count(sys, "restore") = 1
         /\ sys[Len(sys)] \in {"exit", "panic"}
         /\ termios \in {captured, RawOf(captured)}
C1_Witness ==
    /\ pc = "done" /\ cause = "panic" /\ rawEntered
    /\ restores = 1 /\ restoredWith = captured /\ termios = captured

(* C2: in the loop the cursor stays within
   [gutterWidth+1, columns] x [0, bufferRowCount], for every accepted
   geometry and every buffer. *)
C2_CursorInBounds ==
    InLoop =>
        /\ gutterWidth + 1 <= cursorX
        /\ cursorX <= winCol
        /\ 0 <= cursorY
        /\ cursorY <= Len(bufferRows)

(* C3: Ctrl-Q (0x11) dispatched in Normal mode writes and flushes the
   clear-screen sequence, then restores the terminal from the snapshot, then
   exits with status 0; nothing is rendered or read after that. *)
C3_QuitSequence ==
    (lastKey = CtrlQ /\ lastMode = normalMode) =>
        /\ pc = "done"
        /\ cause = "quit"
        /\ out = ClearBurst
        /\ sys = <<"write", "flush", "restore", "exit">>
        /\ restoredWith = captured
        /\ exitCode = 0
        /\ ~ENABLED Next
C3_Witness ==
    /\ lastKey = CtrlQ /\ lastMode = normalMode /\ exitCode = 0
    /\ termios = captured /\ frames = MaxFrames

(* C4: the exit status is 0 after a quit and 1 on every error path: raw-mode
   entry, geometry, log file, file open, recovered panic. *)
C4_ExitCodes ==
    pc = "done" =>
        /\ cause = "quit" => exitCode = 0
        /\ cause \in {"rawmode", "winsize", "logfile", "fileopen", "panic"} => exitCode = 1

(* C5: after the scroll adjustment of a frame the cursor row is inside the
   drawn viewport: rowOffset <= cursorY < rowOffset + viewportRows. *)
C5_CursorInViewport ==
    Drawn => (rowOffset <= cursorY /\ cursorY < rowOffset + winRow)

(* C6: the welcome banner is written in at most one frame of a session, and
   in none when a file was opened. *)
C6_BannerOnce ==
    /\ bannerFrames <= 1
    /\ fileOpened => bannerFrames = 0
    /\ BannerLines(out) # {} => (~fileOpened /\ frames = 1)
C6_Witness ==
    /\ Drawn /\ frames = MaxFrames /\ bannerFrames = 1 /\ BannerLines(out) = {}

(* C7, as claimed: rendering again with no keypress in between gives the
   same output, from every state, and each frame holds the cursor-position
   escape exactly once. *)
C7_RenderTwiceIdentical ==
    Drawn => (refreshScreen(TS).out = out /\ CursorTos(out) = 1)
(* C7, amended: the same, except that the banner of the first frame of a
   session without a file is not written again. *)
C7_RenderTwiceSaveBanner ==
    Drawn =>
        /\ refreshScreen(TS).out = WithoutBanner(out)
        /\ ~refreshScreen(TS).panicked
        /\ CursorTos(out) = 1
        /\ CursorTos(refreshScreen(TS).out) = 1
C7_Witness ==
    /\ Drawn /\ BannerLines(out) # {}
    /\ refreshScreen(TS).out # out
    /\ refreshScreen(TS).out = WithoutBanner(out)

(* C8: in Normal mode 'i' leads to Insert, in Insert mode ESC leads back to
   Normal, the frame drawn in between leaves the mode alone, and neither
   keypress changes the cursor, the row offset or the buffer. *)
C8_InsertEscape ==
    [][/\ (pc = "read" /\ mode = normalMode /\ lastKey' = KeyI) =>
            (mode' = insertMode /\ pc' = "render"
             /\ UNCHANGED <<cursorX, cursorY, rowOffset, bufferRows>>)
       /\ (pc = "read" /\ mode = insertMode /\ lastKey' = escapeChar) =>
            (mode' = normalMode /\ pc' = "render"
             /\ UNCHANGED <<cursorX, cursorY, rowOffset, bufferRows>>)
       /\ (pc = "render" /\ lastKey = KeyI /\ lastMode = normalMode) =>
            (mode' = insertMode /\ UNCHANGED <<cursorX, cursorY, rowOffset, bufferRows>>)
      ]_vars
C8_Witness ==
    /\ lastKey = escapeChar /\ lastMode = insertMode /\ mode = normalMode
    /\ cursorY > 0 /\ rowOffset > 0

ModeName == IF mode = normalMode THEN "NORMAL" ELSE IF mode = insertMode THEN "INSERT" ELSE ""
EndsWithCRLF(line) == line[Len(line)] = CRLF

(* C9: a frame is exactly viewportRows = reported rows - 1 content lines,
   each ended by CR LF, then one status bar; with an empty buffer every
   content line begins with "~"; the first frame of a session without a file
   has the banner on content line viewportRows/3 and on no other. *)
C9_FrameShape ==
    Drawn =>
        /\ out.rows = reported[1] - 1
        /\ \A i \in DOMAIN out.lines : i \in 0..(out.rows - 1) /\ EndsWithCRLF(out.lines[i])
        /\ Len(out.tail) = 5 /\ out.tail[1] = colorCode(IF mode = normalMode THEN inverted ELSE bgBlue)
        /\ out.tail[3] = colorCode(reset)
        /\ bufferRows = <<>> => \A i \in DOMAIN out.lines : out.lines[i][1] = Tilde
        /\ (frames = 1 /\ ~fileOpened) =>
             /\ BannerLines(out) = {(reported[1] - 1) \div 3}
             /\ out.lines[(reported[1] - 1) \div 3][2].s = SubSeq("zi -- version 0.0.1", 1, Len(out.lines[(reported[1] - 1) \div 3][2].s))

(* C10: the text of the status bar is exactly `columns` cells, padded or
   cut, for every mode and file name, and holds the name of the mode and
   the name of the file. *)
C10_StatusBarWidth ==
    Drawn =>
        /\ Cells(out.tail[2]) = winCol
        /\ out.tail[2].s = ModeName \o " -- " \o openFilename

(* A frame was flushed by the last step: drawn whole, or cut short by a
   panic in drawRows. *)
FrameSent == Drawn \/ (pc = "done" /\ cause = "panic")
(* All the pieces of a burst but its first and its last. *)
Inner(b) ==
    {b.head[i] : i \in 2..Len(b.head)}
    \cup UNION {{b.lines[i][j] : j \in DOMAIN b.lines[i]} : i \in DOMAIN b.lines}
    \cup {b.tail[i] : i \in 1..(Len(b.tail) - 1)}

(* C11: every frame begins with the hide-cursor escape and ends with the
   show-cursor escape, neither is written anywhere else in it, it is flushed
   once, and this by the first thing the step does to the outside, so after
   the show-cursor escape was written; the same holds for the frame cut
   short by a panic in drawRows. *)
C11_HideFirstShowLast ==
    FrameSent =>
        /\ out.head[1] = HideCursor
        /\ Len(out.tail) > 0
        /\ out.tail[Len(out.tail)] = ShowCursor
        /\ HideCursor \notin Inner(out)
        /\ ShowCursor \notin Inner(out)
        /\ Count(sys, "flush") = 1
        /\ sys[1] = "flush"
C11_Witness ==
    /\ pc = "done" /\ cause = "panic"
    /\ out.head[1] = HideCursor
    /\ out.tail = <<ShowCursor>>
    /\ out.rows > 0
    /\ sys[1] = "flush"

(* The same program on a tall and wide terminal and a short file, with the
   loop of readKeyPress kept going: when a read can succeed, one eventually does. *)
InitReads ==
    Init /\ reported = <<MaxRows, WideCols>> /\ Len(argv.rows) <= MaxFileRows
SpecReads == InitReads /\ [][Next]_vars /\ WF_vars(KeyPress)

(* C12: while readKeyPress waits, a failed read changes nothing but the
   count of failed reads, and what ends the wait is the dispatch of a byte
   that was read, after the failed reads and not before; and the wait ends
   once a byte can be read. *)
C12_ReadRetried ==
    /\ [][pc = "read" =>
            \/ /\ retries' = retries + 1
               /\ UNCHANGED <<pc, termVars, envVars, geomVars, tsVars, outVars,
                              lastKey, lastMode, sys, cause, exitCode>>
            \/ /\ pc' \in {"render", "done"}
               /\ lastKey' \in Keys
               /\ lastMode' = mode
               /\ retries' = retries]_vars
    /\ (pc = "read") ~> (pc \in {"render", "done"})
C12_Witness ==
    /\ pc = "render" /\ retries = MaxRetries /\ lastKey = KeyJ
    /\ lastMode = normalMode /\ cursorY = 2

(* Every a in fx comes before every b in fx. *)
Before(fx, a, b) == \A i, j \in DOMAIN fx : (fx[i] = a /\ fx[j] = b) => i < j

(* C13: after a panic in the loop was recovered, the terminal was restored
   before anything of the diagnostic (the stack trace, the error) was
   printed, the process ended after both, and the exit status is 1. *)
C13_RestoreBeforeDiagnostic ==
    (pc = "done" /\ cause = "panic") =>
        /\ Count(sys, "restore") = 1
        /\ Count(sys, "print stack") = 1
        /\ Before(sys, "restore", "print stack")
        /\ Before(sys, "restore", "print error")
        /\ Before(sys, "print stack", "exit")
        /\ Before(sys, "print error", "exit")
        /\ exitCode = 1

(* C14, as claimed: a frame render changes none of mode, cursor, rowOffset
   and welcomed. *)
C14_RenderReadOnly ==
    [][pc = "render" =>
         UNCHANGED <<mode, cursorX, cursorY, rowOffset, welcomed>>]_vars
(* C14, amended: a frame render changes neither the mode nor the cursor nor
   the buffer; it does set rowOffset, to what adjustScroll computes, and it
   sets welcomed when it writes the banner; a keypress dispatch changes
   neither rowOffset nor welcomed. *)
C14_RenderKeepsModeAndCursor ==
    [][/\ pc = "render" =>
            /\ UNCHANGED <<mode, cursorX, cursorY, bufferRows>>
            /\ rowOffset' = adjustScroll(TS).rowOffset
            /\ welcomed' = (welcomed \/ BannerLines(out') # {})
       /\ pc = "read" => UNCHANGED <<rowOffset, welcomed>>]_vars
C14_Witness ==
    /\ Drawn /\ lastKey = KeyJ /\ mode = normalMode
    /\ rowOffset > 0 /\ cursorY = rowOffset + winRow

(* What the process does to the outside on its way out, by the cause. *)
ExitPath(c) ==
    CASE c = "quit" -> <<"write", "flush", "restore", "exit">>
      [] c = "fileopen" -> <<"restore", "print error", "exit">>
      [] c = "panic" -> <<"flush", "print stack", "restore", "print error", "exit">>
      [] c \in {"winsize", "logfile"} -> <<"restore", "panic">>
      [] OTHER -> <<"panic">>
ExitStatus(c) ==
    CASE c = "quit" -> 0
      [] c \in {"fileopen", "panic"} -> 1
      [] OTHER -> PanicExit

(* C15: once disableRawMode was called with the snapshot, calling it again
   with the snapshot leaves the attributes it restored as they are, whether
   the second ioctl succeeds or fails; and a failed ioctl of the first call
   leaves the terminal raw but changes neither what the process does on its
   way out nor its exit status. *)
C15_RestoreIdempotent ==
    (pc = "done" /\ restores = 1) =>
        /\ restoredWith = captured
        /\ termios \in {captured, RawOf(captured)}
        /\ \A ok \in BOOLEAN :
             /\ termios = captured => disableRawMode(termios, oldTermios, ok) = captured
             /\ disableRawMode(termios, oldTermios, ok) \in {termios, captured}
        /\ disableRawMode(disableRawMode(termios, oldTermios, TRUE), oldTermios, TRUE) = captured
        /\ sys = ExitPath(cause)
        /\ exitCode = ExitStatus(cause)
C15_Witness ==
    /\ pc = "done" /\ restores = 1 /\ cause = "quit" /\ exitCode = 0
    /\ termios = captured /\ termios # RawOf(captured)
    /\ disableRawMode(termios, oldTermios, FALSE) = captured
C15_FailureSwallowed ==
    /\ pc = "done" /\ restores = 1 /\ cause = "quit" /\ exitCode = 0
    /\ termios = RawOf(captured) /\ termios # captured

(* C16: a byte dispatched in Visual mode is fatal: the process ends, not
   by a quit, with the terminal restored before it exits and with the exit
   status of an error. *)
C16_VisualFatal ==
    (lastKey # NoKey /\ lastMode = visualMode) =>
        /\ pc = "done"
        /\ cause # "quit"
        /\ restores = 1
        /\ Before(sys, "restore", "exit")
        /\ exitCode = 1

(* Reading a cursor-position escape ESC [ row ; col H back. *)
Digit(c) == CHOOSE d \in 0..9 : ToString(d) = c
RECURSIVE ParseNat(_)
ParseNat(s) ==
    IF Len(s) = 0 THEN 0
    ELSE ParseNat(SubSeq(s, 1, Len(s) - 1)) * 10 + Digit(SubSeq(s, Len(s), Len(s)))
SemicolonAt(s) == CHOOSE i \in 1..Len(s) : SubSeq(s, i, i) = ";"
CursorRow(p) == ParseNat(SubSeq(p.s, Len(ESC) + 2, SemicolonAt(p.s) - 1))
CursorCol(p) == ParseNat(SubSeq(p.s, SemicolonAt(p.s) + 1, Len(p.s) - 1))
(* The last cursor-position escape of a frame: the piece before the
   show-cursor escape. *)
FinalCursorTo == out.tail[Len(out.tail) - 1]

(* C17: the final cursor-position escape of every frame addresses a row in
   1..viewportRows, so neither row 0 nor the line of the status bar, and
   column cursorX + 1. *)
C17_CursorRowOnContentLine ==
    Drawn =>
        /\ IsCursorTo(FinalCursorTo)
        /\ CursorRow(FinalCursorTo) >= 1
        /\ CursorRow(FinalCursorTo) <= winRow
        /\ CursorCol(FinalCursorTo) = cursorX + 1

(* The bytes with a binding, by mode. *)
Bound(md) ==
    CASE md = normalMode -> {CtrlQ, KeyI, KeyH, KeyJ, KeyK, KeyL}
      [] md = insertMode -> {escapeChar}
      [] OTHER -> {}

(* C18: the dispatch of a byte that has no binding in the current mode, in
   Normal or Insert mode, changes none of mode, cursor, rowOffset and
   buffer, and the session goes on with the next frame. *)
C18_UnboundByteNoOp ==
    [][(/\ pc = "read" /\ pc' # "read"
        /\ mode \in {normalMode, insertMode}
        /\ lastKey' \notin Bound(mode)) =>
           /\ UNCHANGED <<mode, cursorX, cursorY, rowOffset, bufferRows>>
           /\ pc' = "render"
           /\ exitCode' = NoExit
           /\ UNCHANGED <<termVars, out>>]_vars
C18_Witness ==
    /\ pc = "render" /\ lastKey = CtrlQ /\ lastMode = insertMode
    /\ mode = insertMode /\ exitCode = NoExit /\ cursorY > 0

(* C19: no keypress dispatch changes rowOffset; a step that changes it is
   a frame render, and the new value is the cursor row, or the cursor row
   less the viewport height. *)
C19_ScrollOnlyInRender ==
    [][/\ pc = "read" => rowOffset' = rowOffset
       /\ rowOffset' # rowOffset =>
            /\ pc = "render"
            /\ UNCHANGED <<cursorY, winRow>>
            /\ \/ cursorY < rowOffset /\ rowOffset' = cursorY
               \/ cursorY >= rowOffset + winRow /\ rowOffset' = cursorY - winRow]_vars
C19_Witness ==
    /\ pc = "render" /\ lastKey = KeyK /\ lastMode = normalMode
    /\ cursorY < rowOffset

(* The content lines of the frame whose file row is inside the buffer. *)
BufferLines == 0 .. (Min(winRow, Len(bufferRows) - rowOffset) - 1)
(* The cells a content line takes on the screen, its CR LF apart. *)
RECURSIVE Width(_)
Width(line) ==
    IF line = <<>> THEN 0
    ELSE (IF line[1] = CRLF THEN 0 ELSE Cells(line[1])) + Width(Tail(line))
(* What C20 says content line i shows. *)
NumberedLine(i) ==
    LET row == bufferRows[rowOffset + i + 1]
    IN  <<colorCode(faint), PadLeft(gutterWidth, ToString(rowOffset + i + 1)),
          colorCode(reset), Txt(" "),
          Txt(SubSeq(row, 1, Min(Len(row), winCol - gutterWidth))), CRLF>>

(* C20: in every frame sent, each content line whose file row is inside the
   buffer is the line number, right-aligned in gutterWidth cells, a space,
   and the first min(len(row), columns - gutterWidth) characters of the row;
   and it is no wider than the terminal reported itself to be. *)
C20_NumberedLines ==
    FrameSent =>
        \A i \in BufferLines :
            /\ i \in DOMAIN out.lines
            /\ out.lines[i] = NumberedLine(i)
            /\ Cells(out.lines[i][2]) = gutterWidth
            /\ Width(out.lines[i]) <= reported[2]

(* C21: once startup has accepted the geometry, the stored rows and columns
   are the reported rows and columns less one, and neither is the wrapped
   value 65535. *)
C21_NoWrap ==
    pc \in {"openlog", "openEditor", "render", "read"} =>
        /\ winRow = reported[1] - 1
        /\ winCol = reported[2] - 1
        /\ winRow # Uint16 - 1
        /\ winCol # Uint16 - 1

(* The frame that follows the dispatch of byte b in the current state. *)
FrameAfter(b) == refreshScreen(processKeyPresses(TS, b).ts)
CursorToOf(b) == b.tail[Len(b.tail) - 1]

(* C22: when a frame is on the screen and a 'j' or a 'k' changes cursorY,
   the next frame differs from this one in the row its cursor-position
   escape addresses or in rowOffset. *)
C22_DistinctRows ==
    Drawn =>
        \A b \in {KeyJ, KeyK} :
            processKeyPresses(TS, b).ts.cursorY # cursorY =>
                \/ FrameAfter(b).panicked
                \/ CursorRow(CursorToOf(FrameAfter(b).out)) # CursorRow(FinalCursorTo)
                \/ FrameAfter(b).ts.rowOffset # rowOffset

(* C23: from the moment main() has made the TermState the mode is Normal
   or Insert, whatever bytes were read; so processCommandModePress is never
   called, and every status bar has the colour and the name of one of the
   two modes. *)
C23_NormalOrInsert ==
    /\ pc \in {"openEditor", "render", "read"} => mode \in {normalMode, insertMode}
    /\ mode \in {0, normalMode, insertMode}
    /\ lastMode \in {0, normalMode, insertMode}
    /\ Drawn =>
         /\ out.tail[1] \in {colorCode(inverted), colorCode(bgBlue)}
         /\ SubSeq(out.tail[2].s, 1, 6) \in {"NORMAL", "INSERT"}
C23_Witness ==
    /\ Drawn /\ mode = insertMode /\ lastKey = KeyX /\ lastMode = insertMode
    /\ out.tail[1] = colorCode(bgBlue) /\ frames = MaxFrames

(* From TermState ts with a frame on the screen: ESC is dispatched and
   ends nothing, the next frame is drawn whole and in Normal mode, and
   Ctrl-Q dispatched then takes the quit path with exit status 0. *)
EscThenCtrlQQuits(ts) ==
    LET e == processKeyPresses(ts, escapeChar)
        f == refreshScreen(e.ts)
        q == processKeyPresses(f.ts, CtrlQ)
    IN  /\ e.code = NoExit
        /\ ~f.panicked
        /\ f.ts.mode = normalMode
        /\ q.code = 0
        /\ q.fx = ExitPath("quit")

(* C24: the process ends by a quit, or with exit status 0, only when the
   byte 0x11 was dispatched in Normal mode; and from every state of the
   loop, once the frame is drawn, ESC and then Ctrl-Q end the session with
   exit status 0. *)
C24_QuitOnlyAndAlways ==
    /\ (cause = "quit" \/ exitCode = 0) =>
         (pc = "done" /\ cause = "quit" /\ exitCode = 0
          /\ lastKey = ctrlPress(KeyQ) /\ lastKey = CtrlQ /\ lastMode = normalMode)
    /\ Drawn => EscThenCtrlQQuits(TS)
    /\ (pc = "render" /\ ~refreshScreen(TS).panicked) =>
         EscThenCtrlQQuits(refreshScreen(TS).ts)
C24_Witness ==
    /\ Drawn /\ mode = insertMode /\ lastKey = CtrlQ /\ lastMode = insertMode
    /\ rowOffset > 0 /\ EscThenCtrlQQuits(TS)

====
